---- MODULE Spec2Model ----
(***************************************************************************)
(* The bidirected overlap graph of gabe-raulet/AP (src/OverlapGraph.py):   *)
(* the OverlapGraph object (add_overlap, get_pruned, get_naive_tr) and its *)
(* two builders, generate_gold_standard and generate_seed_based, and the   *)
(* seed generator of src/FindOverlaps.py (minimizers, kmercode,            *)
(* get_kmer_array, compress_kmer_array, get_overlap_seeds).                *)
(*                                                                         *)
(* For the graph a read is represented by its length: the graph code only  *)
(* ever takes len(seqs[u]).  An adjacency self.g[u] is a Python dict, which iterates  *)
(* in insertion order, so it is a sequence of entries [v, d, l] here.      *)
(***************************************************************************)
EXTENDS Integers, Sequences, FiniteSets, TLC

VARIABLES
    seqs,           \* read lengths, indexed by read id 0..n-1
    g,              \* self.g of the graph under construction / operated on
    pc,             \* where the running operation is
    last,           \* the latest call on the graph and how it ended
    res,            \* the graph returned by the latest get_pruned / get_naive_tr
    added,          \* history: the overhangs passed to add_overlap per <<u, v>>
    ncalls,         \* history: how many add_overlap calls were made
    records,        \* generate_gold_standard: the records argument
    genome_length,  \* generate_gold_standard: the genome_length argument
    srt,            \* generate_gold_standard: sorted(records) * 2
    ufind, vfind,   \* generate_gold_standard: the two loop indices
    calls,          \* add_overlap calls issued by the latest loop iteration
    issued,         \* history: every pair of dovetail calls issued together
    seeds,          \* generate_seed_based: overlap_seeds still to be parsed
    k,              \* generate_seed_based: the seed length
    reads,          \* FindOverlaps: the read strings, letters A, C, G, T as 0..3
    w_,             \* FindOverlaps: the minimizer window length w
    yielded,        \* FindOverlaps: what minimizers yielded, per read
    kmer_array,     \* FindOverlaps: what get_kmer_array returned
    kmer_dict       \* FindOverlaps: what compress_kmer_array returned

objVars  == <<g, last, res, added, ncalls>>
goldVars == <<records, genome_length, srt, ufind, vfind>>
kmerVars == <<reads, w_, yielded, kmer_array, kmer_dict>>
seedVars == <<seeds, k, kmerVars>>
vars == <<seqs, pc, objVars, goldVars, seedVars, calls, issued>>

-----------------------------------------------------------------------------
(* Bounds of the model *)

\* The API specification: vertices, overhang range, number of add_overlap calls.
NumVertices == 3
MaxOverhang == 2
MaxCalls    == 2

\* The dir values of an edge: -1 containment, else (tail_bit << 1) | head_bit.
Dirs == {-1, 0, 1, 2, 3}

\* The fuzz arguments tried on a graph, and after a builder (test.py and test4.py
\* pass 0).
Fuzzes == {-1, 0, 1, 2}
PipelineFuzzes == {0, 1}

\* generate_gold_standard: number of reads, read length, reference length.
MaxReads  == 3
MaxLen    == 3
GenomeLen == 5

\* generate_seed_based: number of seeds in the list, seed length.
MaxSeeds == 2
MaxK     == 2

\* get_overlap_seeds: number of reads, read length, window length.
MaxKmerReads == 2
MaxStr       == 3
MaxW         == 2


-----------------------------------------------------------------------------
(* The OverlapGraph object *)

Range(s) == {s[i] : i \in DOMAIN s}

\* OverlapGraph.__init__: n vertices, every adjacency an empty dict.
NewGraph(n) == [u \in 0 .. (n - 1) |-> <<>>]

NumOf(G) == Cardinality(DOMAIN G)

\* v in self.g[u]
HasEdge(G, u, v) == \E i \in DOMAIN G[u] : G[u][i].v = v

\* self.g[u][v]
EdgeOf(G, u, v) == G[u][CHOOSE i \in DOMAIN G[u] : G[u][i].v = v]

\* self.g[u][v] = (d, l): an existing key keeps its place, a new one goes last.
SetEdge(G, u, v, d, l) ==
    LET e == [v |-> v, d |-> d, l |-> l]
    IN  IF HasEdge(G, u, v)
        THEN [G EXCEPT ![u] = [i \in DOMAIN G[u] |->
                                 IF G[u][i].v = v THEN e ELSE G[u][i]]]
        ELSE [G EXCEPT ![u] = Append(G[u], e)]

\* The comparison made strict: an equal overhang then replaces the stored edge.
KeepsStoredStrict(stored, l) == stored < l

\* The comparison turned around: a plausible slip in add_overlap.
KeepsStoredFlipped(stored, l) == stored >= l

\* add_overlap keeps the stored edge when its overhang is <= the new one.
KeepsStored(stored, l) == stored <= l

\* OverlapGraph.add_overlap
add_overlap(G, u, v, d, l) ==
    IF u < 0 \/ u >= NumOf(G) \/ v < 0 \/ v >= NumOf(G)
    THEN [status |-> "IndexError", g |-> G]
    ELSE IF HasEdge(G, u, v) /\ KeepsStored(EdgeOf(G, u, v).l, l)
         THEN [status |-> "ok", g |-> G]
         ELSE [status |-> "ok", g |-> SetEdge(G, u, v, d, l)]

\* A list of add_overlap calls <<u, v, d, l>> made one after the other.
RECURSIVE AddAll(_, _)
AddAll(G, cs) ==
    IF cs = <<>> THEN [status |-> "ok", g |-> G]
    ELSE LET r == add_overlap(G, Head(cs)[1], Head(cs)[2], Head(cs)[3], Head(cs)[4])
         IN  IF r.status # "ok" THEN r ELSE AddAll(r.g, Tail(cs))

\* The edges <<u, v>> of G in the order "for u in g: for v in g[u]" visits them.
RECURSIVE EdgesFrom(_, _)
EdgesFrom(G, u) ==
    IF u >= NumOf(G) THEN <<>>
    ELSE [i \in DOMAIN G[u] |-> <<u, G[u][i].v>>] \o EdgesFrom(G, u + 1)

EdgeList(G) == EdgesFrom(G, 0)

\* OverlapGraph.num_edges
num_edges(G) == Len(EdgeList(G))

\* The edges of G as a set of <<u, v, d, l>>.
EdgeSet(G) ==
    UNION {{<<u, G[u][i].v, G[u][i].d, G[u][i].l>> : i \in DOMAIN G[u]} : u \in DOMAIN G}

\* A slip in the containment test: the source of a dir = -1 edge instead.
ContainedSource(G) == {e[1] : e \in {x \in EdgeSet(G) : x[3] = -1}}

\* get_pruned, lines 73-77: the targets of the dir = -1 edges.
Contained(G) == {e[2] : e \in {x \in EdgeSet(G) : x[3] = -1}}

\* The calls of lines 81-85 with source and target exchanged.
PrunedCallsSwapped(G) ==
    LET es   == EdgeList(G)
        keep == SelectSeq(es, LAMBDA e : e[1] \notin Contained(G) /\ e[2] \notin Contained(G))
    IN  [i \in DOMAIN keep |->
           <<keep[i][2], keep[i][1],
             EdgeOf(G, keep[i][1], keep[i][2]).d, EdgeOf(G, keep[i][1], keep[i][2]).l>>]

\* get_pruned, lines 81-85: the add_overlap calls made on the new graph, in order.
PrunedCalls(G) ==
    LET es   == EdgeList(G)
        keep == SelectSeq(es, LAMBDA e : e[1] \notin Contained(G) /\ e[2] \notin Contained(G))
    IN  [i \in DOMAIN keep |->
           <<keep[i][1], keep[i][2],
             EdgeOf(G, keep[i][1], keep[i][2]).d, EdgeOf(G, keep[i][1], keep[i][2]).l>>]

\* OverlapGraph.get_pruned
get_pruned(G) == AddAll(NewGraph(NumOf(G)), PrunedCalls(G))

\* get_naive_tr, line 103: ((d >> 1) & 1, d & 1); >> and & on Python's integers,
\* so dir = -1 gives (1, 1).
arrows(G, u, v) == <<(EdgeOf(G, u, v).d \div 2) % 2, EdgeOf(G, u, v).d % 2>>

\* get_naive_tr, lines 105-108: the triples the first loop visits.
Adj(G, u) == {G[u][i].v : i \in DOMAIN G[u]}

Triples(G) ==
    UNION {UNION {{<<u, v, w>> : w \in Adj(G, v) \cap Adj(G, u)} : v \in Adj(G, u)} :
             u \in DOMAIN G}

\* The test of line 111 with arrows read as (head, tail) = (d & 1, (d >> 1) & 1).
ConsistentAsNamed(G, u, v, w) ==
    LET uv_head == arrows(G, u, v)[2]
        uv_tail == arrows(G, u, v)[1]
        vw_head == arrows(G, v, w)[2]
        vw_tail == arrows(G, v, w)[1]
        uw_head == arrows(G, u, w)[2]
        uw_tail == arrows(G, u, w)[1]
    IN  uv_head = uw_head /\ vw_tail = uw_tail /\ uv_tail # vw_head

\* get_naive_tr, lines 107-111, with the names the code gives the two components.
Consistent(G, u, v, w) ==
    LET uv_head == arrows(G, u, v)[1]
        uv_tail == arrows(G, u, v)[2]
        vw_head == arrows(G, v, w)[1]
        vw_tail == arrows(G, v, w)[2]
        uw_head == arrows(G, u, w)[1]
        uw_tail == arrows(G, u, w)[2]
    IN  uv_head = uw_head /\ vw_tail = uw_tail /\ uv_tail # vw_head

ConsistentTriples(G) == {t \in Triples(G) : Consistent(G, t[1], t[2], t[3])}

\* The test of line 112 on the path through v: suflen(u,v) + suflen(v,w) against
\* suflen(u,w) + fuzz.
FuzzTestThroughV(G, u, v, w, fuzz) ==
    EdgeOf(G, u, v).l + EdgeOf(G, v, w).l <= EdgeOf(G, u, w).l + fuzz

\* get_naive_tr, line 112; suflen(w, v) is only looked up for a consistent triple.
FuzzTest(G, u, v, w, fuzz) ==
    EdgeOf(G, u, w).l + EdgeOf(G, w, v).l >= EdgeOf(G, u, w).l + fuzz

\* Line 112 raises KeyError when g[w] has no key v; ct are the consistent triples.
FirstLoopRaises(G, ct) == \E t \in ct : ~HasEdge(G, t[3], t[2])

\* Line 114 left out: only reduce[u][w] is set.
MarksOneWay(G, ct, fuzz) ==
    {<<t[1], t[3]>> : t \in {c \in ct : FuzzTest(G, c[1], c[2], c[3], fuzz)}}

\* get_naive_tr, lines 113-114: the pairs <<x, y>> with reduce[x][y] = True.
Marks(G, ct, fuzz) ==
    UNION {{<<t[1], t[3]>>, <<t[3], t[1]>>} :
             t \in {c \in ct : FuzzTest(G, c[1], c[2], c[3], fuzz)}}

\* get_naive_tr, lines 118-123 for one edge (u, w): reduce[w] has the key u when
\* (w, u) is an edge (line 99) or was marked (line 114).
SecondLoopStep(G, M, u, w) ==
    IF <<u, w>> \in M THEN "skip"
    ELSE IF ~HasEdge(G, w, u) /\ <<w, u>> \notin M THEN "KeyError"
    ELSE IF <<w, u>> \in M THEN "AssertionError"
    ELSE "copy"

\* get_naive_tr, lines 116-125 over the edges still to visit.
RECURSIVE SecondLoop(_, _, _, _)
SecondLoop(G, M, es, tr) ==
    IF es = <<>> THEN [status |-> "ok", g |-> tr]
    ELSE LET u == Head(es)[1]
             w == Head(es)[2]
             s == SecondLoopStep(G, M, u, w)
         IN  CASE s = "skip" -> SecondLoop(G, M, Tail(es), tr)
               [] s = "copy" ->
                    SecondLoop(G, M, Tail(es),
                        AddAll(tr, << <<u, w, EdgeOf(G, u, w).d, EdgeOf(G, u, w).l>>,
                                      <<w, u, EdgeOf(G, w, u).d, EdgeOf(G, w, u).l>> >>).g)
               [] OTHER -> [status |-> s, g |-> tr]

\* OverlapGraph.get_naive_tr
get_naive_tr(G, fuzz) ==
    LET ct == ConsistentTriples(G)
    IN  IF FirstLoopRaises(G, ct) THEN [status |-> "KeyError", g |-> NewGraph(NumOf(G))]
        ELSE SecondLoop(G, Marks(G, ct, fuzz), EdgeList(G), NewGraph(NumOf(G)))

-----------------------------------------------------------------------------
(* Values of the variables an operation does not use *)

NoCall == [op |-> "none", u |-> 0, v |-> 0, d |-> 0, l |-> 0, status |-> "ok",
           had |-> FALSE, old_d |-> 0, old_l |-> 0]

NoResult == [op |-> "none", fuzz |-> 0, status |-> "ok", input |-> <<>>, g |-> <<>>,
             consistent |-> {}, marked |-> {}, prev_marked |-> {}]

NoAdded(n) == [p \in (0 .. (n - 1)) \X (0 .. (n - 1)) |-> {}]

GoldIdle ==
    /\ records = <<>> /\ genome_length = 0 /\ srt = <<>> /\ ufind = 0 /\ vfind = 0

KmerIdle == reads = <<>> /\ w_ = 0 /\ yielded = <<>> /\ kmer_array = <<>> /\ kmer_dict = <<>>

SeedIdle == seeds = <<>> /\ k = 0 /\ KmerIdle

-----------------------------------------------------------------------------
(* Specification Spec: one OverlapGraph object and the calls made on it *)

\* OverlapGraph(seqs) on NumVertices reads; nothing called yet.
Init ==
    /\ seqs = [u \in 0 .. (NumVertices - 1) |-> 1]
    /\ g = NewGraph(NumVertices)
    /\ pc = "object"
    /\ last = NoCall
    /\ res = NoResult
    /\ added = NoAdded(NumVertices)
    /\ ncalls = 0
    /\ calls = <<>>
    /\ issued = {}
    /\ GoldIdle
    /\ SeedIdle

\* One call g.add_overlap(u, v, d, l); out-of-range indices raise IndexError, and
\* last then keeps the indices only.
AddOverlap(u, v, d, l) ==
    /\ pc = "object"
    /\ ncalls < MaxCalls
    /\ LET r     == add_overlap(g, u, v, d, l)
           inrng == r.status = "ok"
           had   == inrng /\ HasEdge(g, u, v)
       IN  /\ g' = r.g
           /\ last' = [op |-> "add_overlap", u |-> u, v |-> v,
                       d |-> IF inrng THEN d ELSE 0, l |-> IF inrng THEN l ELSE 0,
                       status |-> r.status, had |-> had,
                       old_d |-> IF had THEN EdgeOf(g, u, v).d ELSE 0,
                       old_l |-> IF had THEN EdgeOf(g, u, v).l ELSE 0]
           /\ added' = IF inrng THEN [added EXCEPT ![<<u, v>>] = @ \cup {l}] ELSE added
    /\ ncalls' = ncalls + 1
    /\ res' = NoResult
    /\ UNCHANGED <<seqs, pc, goldVars, seedVars, calls, issued>>

\* One call g.get_pruned(); the graph it returns is kept in res.
GetPruned ==
    /\ pc \in {"object", "done"}
    /\ res = NoResult
    /\ LET r == get_pruned(g)
       IN  res' = [op |-> "get_pruned", fuzz |-> 0, status |-> r.status,
                   input |-> g, g |-> r.g, consistent |-> {},
                   marked |-> {}, prev_marked |-> {}]
    /\ last' = NoCall
    /\ UNCHANGED <<seqs, g, pc, added, ncalls, goldVars, seedVars, calls, issued>>

\* reduce after the first loop of get_naive_tr(fuzz), lines 105-114: the pairs set to
\* True; nothing when the loop raised.
Marked(G, fuzz) ==
    LET ct == ConsistentTriples(G)
    IN  IF FirstLoopRaises(G, ct) THEN {} ELSE Marks(G, ct, fuzz)

\* One call g.get_naive_tr(fuzz); the graph it returns, or the exception, is kept in
\* res, with the triples for which the test of line 111 holds.
GetNaiveTr(fuzz) ==
    /\ pc \in {"object", "done"}
    /\ res = NoResult
    /\ LET r == get_naive_tr(g, fuzz)
       IN  res' = [op |-> "get_naive_tr", fuzz |-> fuzz, status |-> r.status,
                   input |-> g, g |-> r.g, consistent |-> ConsistentTriples(g),
                   marked |-> Marked(g, fuzz), prev_marked |-> {}]
    /\ last' = NoCall
    /\ UNCHANGED <<seqs, g, pc, added, ncalls, goldVars, seedVars, calls, issued>>

\* get_pruned() called on the graph a get_pruned() call returned.
PruneAgain ==
    /\ res.op = "get_pruned" /\ res.status = "ok"
    /\ LET r == get_pruned(res.g)
       IN  res' = [op |-> "get_pruned_again", fuzz |-> 0, status |-> r.status,
                   input |-> res.g, g |-> r.g, consistent |-> {},
                   marked |-> {}, prev_marked |-> {}]
    /\ UNCHANGED <<seqs, g, pc, last, added, ncalls, goldVars, seedVars, calls, issued>>

\* A second call g.get_naive_tr(fuzz) on the same graph with a larger fuzz; what the
\* first call marked is kept in prev_marked.
GetNaiveTrAgain(fuzz) ==
    /\ res.op = "get_naive_tr"
    /\ fuzz > res.fuzz
    /\ LET r == get_naive_tr(g, fuzz)
       IN  res' = [op |-> "get_naive_tr_again", fuzz |-> fuzz, status |-> r.status,
                   input |-> g, g |-> r.g, consistent |-> ConsistentTriples(g),
                   marked |-> Marked(g, fuzz), prev_marked |-> res.marked]
    /\ UNCHANGED <<seqs, g, pc, last, added, ncalls, goldVars, seedVars, calls, issued>>

Next ==
    \/ \E u, v \in -1 .. NumVertices, d \in Dirs, l \in 0 .. MaxOverhang :
          AddOverlap(u, v, d, l)
    \/ GetPruned
    \/ PruneAgain
    \/ \E fuzz \in Fuzzes : GetNaiveTr(fuzz)

Spec == Init /\ [][Next]_vars

-----------------------------------------------------------------------------
(* generate_gold_standard *)

\* sorted(records, key=lambda t: t[1]): Python's sort is stable, so a record goes
\* behind every record whose start is not greater than its own.
RECURSIVE SortedByPos(_)
SortedByPos(rs) ==
    IF rs = <<>> THEN <<>>
    ELSE LET init == SortedByPos(SubSeq(rs, 1, Len(rs) - 1))
             x    == rs[Len(rs)]
             cut  == Cardinality({i \in DOMAIN init : init[i][2] <= x[2]})
         IN  SubSeq(init, 1, cut) \o <<x>> \o SubSeq(init, cut + 1, Len(init))

\* The record at Python index i of the doubled list.
RecAt(i) == srt[i + 1]

n_reads == NumOf(seqs)

\* lines 285-287
u_    == RecAt(ufind)[1]
upos  == RecAt(ufind)[2]
urev  == RecAt(ufind)[3]
ulen  == seqs[u_]

\* lines 291-295 and 299-300
v_    == IF vfind < n_reads THEN RecAt(vfind)[1] ELSE RecAt(vfind - n_reads)[1]
vpos  == IF vfind < n_reads THEN RecAt(vfind)[2]
         ELSE RecAt(vfind - n_reads)[2] + genome_length
vrev  == IF vfind < n_reads THEN RecAt(vfind)[3] ELSE RecAt(vfind - n_reads)[3]
vlen  == seqs[v_]

\* The two mixed-strand rows exchanged.
DovetailDirsSwapped(ur, vr) ==
    IF ~ur THEN (IF ~vr THEN <<1, 2>> ELSE <<3, 3>>)
           ELSE (IF ~vr THEN <<0, 0>> ELSE <<2, 1>>)

\* lines 330-343: the dir of (u, v) and of (v, u) for the strands of u and v.
DovetailDirs(ur, vr) ==
    IF ~ur THEN (IF ~vr THEN <<1, 2>> ELSE <<0, 0>>)
           ELSE (IF ~vr THEN <<3, 3>> ELSE <<2, 1>>)

\* The cutoff one position late: abutting reads would count as overlapping.
CutsOffLate(vp, up, ul) == vp > up + ul

\* line 302: the inner loop stops at the first read that starts at or after u's end.
CutsOff(vp, up, ul) == vp >= up + ul

\* The containment test made strict.
VInsideUStrict(vp, vl, up, ul) == vp + vl < up + ul

\* line 309: v ends no later than u.
VInsideU(vp, vl, up, ul) == vp + vl <= up + ul

\* generate_gold_standard(seqs, records, genome_length) is called: lines 274-283.
GoldStart ==
    /\ pc = "call_gold"
    /\ IF Len(records) # n_reads
       THEN /\ pc' = "ValueError"
            /\ UNCHANGED <<g, srt, ufind, vfind>>
       ELSE /\ g' = NewGraph(n_reads)
            /\ srt' = SortedByPos(records) \o SortedByPos(records)
            /\ ufind' = 0
            /\ vfind' = 1
            /\ pc' = IF n_reads = 0 THEN "done" ELSE "inner"
    /\ calls' = <<>>
    /\ UNCHANGED <<seqs, last, res, added, ncalls, records, genome_length, issued, seedVars>>

\* The inner loop is left (exhausted or by break): the next ufind, or return g.
NextU ==
    /\ ufind' = ufind + 1
    /\ vfind' = ufind + 2
    /\ pc' = IF ufind + 1 < n_reads THEN "inner" ELSE "done"
    /\ calls' = <<>>
    /\ UNCHANGED <<g, issued>>

\* range(ufind+1, 2*n) is exhausted.
GoldExhausted ==
    /\ pc = "inner"
    /\ vfind >= 2 * n_reads
    /\ NextU
    /\ UNCHANGED <<seqs, last, res, added, ncalls, records, genome_length, srt, seedVars>>

\* line 297: assert upos <= vpos fails.
GoldAssertFails ==
    /\ pc = "inner"
    /\ vfind < 2 * n_reads
    /\ ~(upos <= vpos)
    /\ pc' = "AssertionError"
    /\ calls' = <<>>
    /\ UNCHANGED <<seqs, objVars, goldVars, seedVars, issued>>

\* lines 302-307: break.
GoldBreak ==
    /\ pc = "inner"
    /\ vfind < 2 * n_reads
    /\ upos <= vpos
    /\ CutsOff(vpos, upos, ulen)
    /\ NextU
    /\ UNCHANGED <<seqs, last, res, added, ncalls, records, genome_length, srt, seedVars>>

\* The calls of one iteration are made on g, and the loop goes on with vfind + 1.
Issue(cs) ==
    /\ g' = AddAll(g, cs).g
    /\ calls' = cs
    /\ vfind' = vfind + 1
    /\ UNCHANGED <<seqs, pc, last, res, added, ncalls, records, genome_length, srt,
                   ufind, seedVars>>

\* lines 309-314: v is contained in u.
GoldVInsideU ==
    /\ pc = "inner"
    /\ vfind < 2 * n_reads
    /\ upos <= vpos
    /\ ~CutsOff(vpos, upos, ulen)
    /\ VInsideU(vpos, vlen, upos, ulen)
    /\ Issue(<< <<u_, v_, -1, 0>> >>)
    /\ UNCHANGED issued

\* lines 320-321: same start and v ends later, so u is contained in v.
GoldUInsideV ==
    /\ pc = "inner"
    /\ vfind < 2 * n_reads
    /\ upos <= vpos
    /\ ~CutsOff(vpos, upos, ulen)
    /\ ~VInsideU(vpos, vlen, upos, ulen)
    /\ upos = vpos
    /\ Issue(<< <<v_, u_, -1, 0>> >>)
    /\ UNCHANGED issued

\* lines 327-343: a proper dovetail, both directions added.
GoldDovetail ==
    /\ pc = "inner"
    /\ vfind < 2 * n_reads
    /\ upos <= vpos
    /\ ~CutsOff(vpos, upos, ulen)
    /\ ~VInsideU(vpos, vlen, upos, ulen)
    /\ upos # vpos
    /\ LET suflen == vpos + vlen - upos - ulen
           prelen == vpos - upos
           ds     == DovetailDirs(urev, vrev)
       IN  /\ Issue(<< <<u_, v_, ds[1], suflen>>, <<v_, u_, ds[2], prelen>> >>)
           /\ issued' = issued \cup {<< <<u_, v_, ds[1], suflen>>, <<v_, u_, ds[2], prelen>> >>}

GoldStep ==
    \/ GoldStart
    \/ GoldExhausted
    \/ GoldAssertFails
    \/ GoldBreak
    \/ GoldVInsideU
    \/ GoldUInsideV
    \/ GoldDovetail

\* The inputs of generate_gold_standard: read i has record (i, start, rev), as
\* create_reads, define_reads and read_problem_instance build them.
RecordLists(m, span) ==
    {[i \in 1 .. m |-> <<i - 1, ps[i], rs[i]>>] :
        ps \in [1 .. m -> 0 .. (span - 1)], rs \in [1 .. m -> BOOLEAN]}

\* The read sets and layouts of the spec's scenarios S2, S3 and S5 (positions,
\* lengths, genome length), each with genome_length the genome's length and 0.
Scenarios ==
    {[seqs |-> sc[1], records |-> sc[2], genome_length |-> gl] :
        sc \in { << (0 :> 8 @@ 1 :> 8 @@ 2 :> 8),
                    << <<0, 0, FALSE>>, <<1, 4, FALSE>>, <<2, 8, FALSE>> >>, 16 >>,
                 << (0 :> 10 @@ 1 :> 5),
                    << <<0, 0, FALSE>>, <<1, 2, FALSE>> >>, 20 >>,
                 << (0 :> 10 @@ 1 :> 8),
                    << <<0, 15, FALSE>>, <<1, 3, FALSE>> >>, 20 >> },
        gl \in {0, 16, 20}}

InitGold ==
    /\ \/ \E m \in 1 .. MaxReads, gl \in {0, GenomeLen - 1, GenomeLen} :
            \E sq \in [0 .. (m - 1) -> 1 .. MaxLen],
               rc \in RecordLists(m, IF gl = 0 THEN GenomeLen ELSE gl) :
               /\ seqs = sq
               /\ records = rc
               /\ genome_length = gl
       \/ \E m \in 1 .. MaxReads :
            \E sq \in [0 .. (m - 1) -> {MaxLen}], rc \in RecordLists(m - 1, GenomeLen) :
               /\ seqs = sq
               /\ records = rc
               /\ genome_length = GenomeLen
       \/ \E inp \in Scenarios :
               /\ seqs = inp.seqs
               /\ records = inp.records
               /\ genome_length = inp.genome_length
    /\ pc = "call_gold"
    /\ g = <<>>
    /\ srt = <<>>
    /\ ufind = 0
    /\ vfind = 0
    /\ last = NoCall
    /\ res = NoResult
    /\ added = <<>>
    /\ ncalls = 0
    /\ calls = <<>>
    /\ issued = {}
    /\ SeedIdle

NextGold ==
    \/ GoldStep
    \/ GetPruned
    \/ \E fuzz \in PipelineFuzzes : GetNaiveTr(fuzz)

SpecGold == InitGold /\ [][NextGold]_vars

-----------------------------------------------------------------------------
(* generate_seed_based *)

\* The seed the loop of line 218 takes next, and the names it is unpacked into.
seed   == Head(seeds)
s_u    == seed[1]
s_v    == seed[2]
s_upos == seed[3]
s_rc   == seed[5]
s_ulen == seqs[s_u]
s_vlen == seqs[s_v]

\* line 225: the position in v, reflected for a reverse-complement seed.
Reflect(vl, vp, kk) == vl - vp - kk - 1

s_vpos == IF s_rc THEN Reflect(s_vlen, seed[4], k) ELSE seed[4]

\* The first containment test with a strict comparison of the seed offsets.
SeedUInsideVStrict == s_upos < s_vpos /\ (s_ulen - s_upos) <= (s_vlen - s_vpos)

\* line 227
SeedUInsideVTest == s_upos <= s_vpos /\ (s_ulen - s_upos) <= (s_vlen - s_vpos)

\* line 229
SeedVInsideUTest == s_upos >= s_vpos /\ (s_ulen - s_upos) >= (s_vlen - s_vpos)

\* generate_seed_based(seqs, overlap_seeds, k) is called: lines 215-216.
SeedStart ==
    /\ pc = "call_seed"
    /\ g' = NewGraph(n_reads)
    /\ pc' = "seeds"
    /\ calls' = <<>>
    /\ UNCHANGED <<seqs, last, res, added, ncalls, goldVars, seedVars, issued>>

\* The list is exhausted: return g.
SeedReturn ==
    /\ pc = "seeds"
    /\ seeds = <<>>
    /\ pc' = "done"
    /\ calls' = <<>>
    /\ UNCHANGED <<seqs, objVars, goldVars, seedVars, issued>>

\* line 218 unpacks a seed into five names: any other length raises ValueError.
SeedUnpackFails ==
    /\ pc = "seeds"
    /\ seeds # <<>>
    /\ Len(seed) # 5
    /\ pc' = "ValueError"
    /\ calls' = <<>>
    /\ UNCHANGED <<seqs, objVars, goldVars, seedVars, issued>>

\* The calls of one seed are made on g, and the loop goes on with the next seed.
IssueSeed(cs) ==
    /\ g' = AddAll(g, cs).g
    /\ calls' = cs
    /\ seeds' = Tail(seeds)
    /\ UNCHANGED <<seqs, pc, last, res, added, ncalls, goldVars, k, kmerVars>>

\* lines 227-228
SeedUInsideV ==
    /\ pc = "seeds"
    /\ seeds # <<>>
    /\ Len(seed) = 5
    /\ SeedUInsideVTest
    /\ IssueSeed(<< <<s_v, s_u, -1, 0>> >>)
    /\ UNCHANGED issued

\* lines 229-230
SeedVInsideU ==
    /\ pc = "seeds"
    /\ seeds # <<>>
    /\ Len(seed) = 5
    /\ ~SeedUInsideVTest
    /\ SeedVInsideUTest
    /\ IssueSeed(<< <<s_u, s_v, -1, 0>> >>)
    /\ UNCHANGED issued

\* lines 232-240: the seed lies further right in u than in v.
SeedDovetailUV ==
    /\ pc = "seeds"
    /\ seeds # <<>>
    /\ Len(seed) = 5
    /\ ~SeedUInsideVTest
    /\ ~SeedVInsideUTest
    /\ s_upos > s_vpos
    /\ LET suflen == (s_vlen - s_vpos) - (s_ulen - s_upos)
           prelen == s_upos - s_vpos
           cs     == IF ~s_rc
                     THEN << <<s_u, s_v, 1, suflen>>, <<s_v, s_u, 2, prelen>> >>
                     ELSE << <<s_u, s_v, 0, suflen>>, <<s_v, s_u, 0, prelen>> >>
       IN  /\ IssueSeed(cs)
           /\ issued' = issued \cup {cs}

\* lines 241-249
SeedDovetailVU ==
    /\ pc = "seeds"
    /\ seeds # <<>>
    /\ Len(seed) = 5
    /\ ~SeedUInsideVTest
    /\ ~SeedVInsideUTest
    /\ ~(s_upos > s_vpos)
    /\ LET suflen == s_vpos - s_upos
           prelen == (s_ulen - s_upos) - (s_vlen - s_vpos)
           cs     == IF ~s_rc
                     THEN << <<s_u, s_v, 2, suflen>>, <<s_v, s_u, 1, prelen>> >>
                     ELSE << <<s_u, s_v, 3, suflen>>, <<s_v, s_u, 3, prelen>> >>
       IN  /\ IssueSeed(cs)
           /\ issued' = issued \cup {cs}

SeedStep ==
    \/ SeedStart
    \/ SeedReturn
    \/ SeedUnpackFails
    \/ SeedUInsideV
    \/ SeedVInsideU
    \/ SeedDovetailUV
    \/ SeedDovetailVU

\* Seeds on two reads: (u, v, upos, vpos, rc) with the k-mer inside both reads.
Seeds5(sq, kk) ==
    {<<u, v, up, vp, rc>> :
        u \in DOMAIN sq, v \in DOMAIN sq, up \in 0 .. (MaxLen - 1), vp \in 0 .. (MaxLen - 1),
        rc \in BOOLEAN}

SeedOk(sq, kk, sd) == sd[3] + kk <= sq[sd[1]] /\ sd[4] + kk <= sq[sd[2]]

\* The sextuples (u, v, upos, vpos, urev, vrev) FindOverlaps.get_overlap_seeds emits.
Seeds6(sq, kk) ==
    {<<u, v, up, vp, ur, vr>> :
        u \in DOMAIN sq, v \in DOMAIN sq, up \in {0}, vp \in {0},
        ur \in BOOLEAN, vr \in BOOLEAN}

SeedLists(S) == UNION {[1 .. m -> S] : m \in 0 .. MaxSeeds}

InitSeed ==
    /\ \E sq \in [0 .. 1 -> 1 .. MaxLen], kk \in 1 .. MaxK :
          /\ seqs = sq
          /\ k = kk
          /\ \/ seeds \in SeedLists({sd \in Seeds5(sq, kk) : SeedOk(sq, kk, sd)})
             \/ \E sd \in {x \in Seeds6(sq, kk) : SeedOk(sq, kk, x)} : seeds = <<sd>>
    /\ pc = "call_seed"
    /\ g = <<>>
    /\ last = NoCall
    /\ res = NoResult
    /\ added = <<>>
    /\ ncalls = 0
    /\ calls = <<>>
    /\ issued = {}
    /\ GoldIdle
    /\ KmerIdle

NextSeed ==
    \/ SeedStep
    \/ GetPruned
    \/ \E fuzz \in PipelineFuzzes : GetNaiveTr(fuzz)

SpecSeed == InitSeed /\ [][NextSeed]_vars

-----------------------------------------------------------------------------
(* Specification SpecTri: get_naive_tr and get_pruned on the graphs of three reads *)

\* The ordered pairs of three reads, in the order their edges are added.
TriPairs == << <<0, 1>>, <<1, 0>>, <<1, 2>>, <<2, 1>>, <<0, 2>>, <<2, 0>> >>

\* What is chosen per ordered pair: no edge, or an edge of some dir.
TriChoices == {<<>>} \cup {<<d>> : d \in Dirs}

\* The add_overlap calls for a choice per ordered pair; a containment edge has
\* overhang 0 and a dovetail edge overhang 1.
RECURSIVE TriCalls(_, _)
TriCalls(ds, i) ==
    IF i > Len(TriPairs) THEN <<>>
    ELSE (IF ds[i] = <<>> THEN <<>>
          ELSE << <<TriPairs[i][1], TriPairs[i][2], ds[i][1],
                    IF ds[i][1] = -1 THEN 0 ELSE 1>> >>)
         \o TriCalls(ds, i + 1)

InitTri ==
    /\ seqs = [u \in 0 .. 2 |-> 1]
    /\ \E ds \in [1 .. 6 -> TriChoices] : g = AddAll(NewGraph(3), TriCalls(ds, 1)).g
    /\ pc = "object"
    /\ last = NoCall
    /\ res = NoResult
    /\ added = <<>>
    /\ ncalls = 0
    /\ calls = <<>>
    /\ issued = {}
    /\ GoldIdle
    /\ SeedIdle

NextTri ==
    \/ GetPruned
    \/ PruneAgain
    \/ \E fuzz \in PipelineFuzzes : GetNaiveTr(fuzz)
    \/ \E fuzz \in PipelineFuzzes : GetNaiveTrAgain(fuzz)

SpecTri == InitTri /\ [][NextTri]_vars

-----------------------------------------------------------------------------
(* FindOverlaps.py: minimizers, k-mer codes, buckets and seeds *)

\* Python's < on two strings of the same length.
LexLess(a, b) ==
    \E p \in 1 .. Len(a) : a[p] < b[p] /\ \A q \in 1 .. (p - 1) : a[q] = b[q]

\* s[i:i+kk], i counted from 0.
Slice(s, i, kk) == SubSeq(s, i + 1, i + kk)

\* minimizers, line 43: min over [(i+j, s[i+j:i+j+k]) for j in range(w)] with the
\* k-mer as key; min returns the first of several smallest.
WindowMin(s, kk, ww, i) ==
    LET js == 0 .. (ww - 1)
        j  == CHOOSE x \in js :
                 \A y \in js :
                    /\ ~LexLess(Slice(s, i + y, kk), Slice(s, i + x, kk))
                    /\ (y < x => LexLess(Slice(s, i + x, kk), Slice(s, i + y, kk)))
    IN  <<i + j, Slice(s, i + j, kk)>>

\* minimizers, line 42: range(l-k-w+1).
NumWindows(l, kk, ww) == l - kk - ww + 1

\* minimizers, lines 42-46, from window i on; seen is the set kmers.
RECURSIVE MinimizersFrom(_, _, _, _, _)
MinimizersFrom(s, kk, ww, i, seen) ==
    IF i >= NumWindows(Len(s), kk, ww) THEN <<>>
    ELSE LET m == WindowMin(s, kk, ww, i)
         IN  IF m[2] \in seen THEN MinimizersFrom(s, kk, ww, i + 1, seen)
             ELSE <<m>> \o MinimizersFrom(s, kk, ww, i + 1, seen \cup {m[2]})

\* FindOverlaps.minimizers: the pairs <<pos, kmer>> in the order they are yielded.
minimizers(s, kk, ww) == MinimizersFrom(s, kk, ww, 0, {})

\* 4 ** e
RECURSIVE Pow4(_)
Pow4(e) == IF e = 0 THEN 1 ELSE 4 * Pow4(e - 1)

RECURSIVE SumTo(_, _)
SumTo(f, n) == IF n = 0 THEN 0 ELSE f[n] + SumTo(f, n - 1)

\* comp_tab (AssemblyProblem.py line 8): A<->T, C<->G.
Comp(c) == 3 - c

\* kmercode compares the wrong way round for the flag.
RevFlagFlipped(forward, reverse) == forward < reverse

\* kmercode, line 71: the flag is (reverse < forward).
RevFlag(forward, reverse) == reverse < forward

\* FindOverlaps.kmercode, lines 67-71; s[i] of the code is s[i + 1] here.
kmercode(s) ==
    LET kk      == Len(s)
        r       == [i \in 1 .. kk |-> Comp(s[i])]
        forward == SumTo([i \in 1 .. kk |-> s[i] * Pow4(kk - i)], kk)
        reverse == SumTo([i \in 1 .. kk |-> r[kk - i + 1] * Pow4(kk - i)], kk)
    IN  <<IF forward <= reverse THEN forward ELSE reverse, RevFlag(forward, reverse)>>

\* get_kmer_array, lines 135-140, from read index i on: reads shorter than k are
\* skipped, every minimizer gives an entry <<code, read_index, pos, rev>>.
RECURSIVE KmerArrayFrom(_, _, _, _)
KmerArrayFrom(rs, kk, ww, i) ==
    IF i >= Len(rs) THEN <<>>
    ELSE LET readseq == rs[i + 1]
             ms      == IF Len(readseq) < kk THEN <<>> ELSE minimizers(readseq, kk, ww)
         IN  [x \in DOMAIN ms |->
                <<kmercode(ms[x][2])[1], i, ms[x][1], kmercode(ms[x][2])[2]>>]
             \o KmerArrayFrom(rs, kk, ww, i + 1)

\* FindOverlaps.get_kmer_array
get_kmer_array(rs, kk, ww) == KmerArrayFrom(rs, kk, ww, 0)

\* Python's < on two tuples (code, readid, readpos, revflag); False < True.
TupleLess(a, b) ==
    \/ a[1] < b[1]
    \/ a[1] = b[1] /\ a[2] < b[2]
    \/ a[1] = b[1] /\ a[2] = b[2] /\ a[3] < b[3]
    \/ a[1] = b[1] /\ a[2] = b[2] /\ a[3] = b[3] /\ ~a[4] /\ b[4]

\* compress_kmer_array, line 161: sorted(kmer_array).
RECURSIVE SortedTuples(_)
SortedTuples(A) ==
    IF A = <<>> THEN <<>>
    ELSE LET rest == SortedTuples(Tail(A))
             x    == Head(A)
             lo   == SelectSeq(rest, LAMBDA y : TupleLess(y, x))
             hi   == SelectSeq(rest, LAMBDA y : ~TupleLess(y, x))
         IN  lo \o <<x>> \o hi

\* compress_kmer_array, lines 164-172 from index i (counted from 0) on, with D the
\* dictionary so far as a sequence of [code, adj] in insertion order.  The for loop
\* leaves j at the first index with another code, or at len(A) - 1 when it runs out.
RECURSIVE CompressFrom(_, _, _)
CompressFrom(A, i, D) ==
    IF ~(i < Len(A) - 1) THEN D
    ELSE LET code   == A[i + 1][1]
             others == {x \in i .. (Len(A) - 1) : A[x + 1][1] # code}
             j      == IF others = {} THEN Len(A) - 1
                       ELSE CHOOSE x \in others : \A y \in others : x <= y
             last_  == IF others = {} THEN Len(A) - 1 ELSE j - 1
             adj    == [x \in 1 .. (last_ - i + 1) |->
                          <<A[i + x][2], A[i + x][3], A[i + x][4]>>]
         IN  CompressFrom(A, j, D \o <<[code |-> code, adj |-> adj]>>)

\* FindOverlaps.compress_kmer_array
compress_kmer_array(A) == CompressFrom(SortedTuples(A), 0, <<>>)

\* The inner loop started one entry late.
InnerRangeShort(j) == 2 .. (j - 1)

\* get_overlap_seeds, line 213: for i in range(j); entry i of the code is adj[i + 1],
\* so the partners of adj[j] are adj[1] .. adj[j - 1].
InnerRange(j) == 1 .. (j - 1)

\* get_overlap_seeds, lines 212-216 for one bucket, from partner index j on.
RECURSIVE BucketSeeds(_, _)
BucketSeeds(adj, j) ==
    IF j > Len(adj) THEN <<>>
    ELSE LET is == InnerRange(j)
             lo == IF is = {} THEN 1 ELSE CHOOSE x \in is : \A y \in is : x <= y
         IN  [x \in 1 .. Cardinality(is) |->
                <<adj[lo + x - 1][1], adj[j][1], adj[lo + x - 1][2], adj[j][2],
                  adj[lo + x - 1][3], adj[j][3]>>]
             \o BucketSeeds(adj, j + 1)

\* get_overlap_seeds, lines 210-216 over the buckets from index b on.
RECURSIVE SeedsFrom(_, _)
SeedsFrom(D, b) ==
    IF b > Len(D) THEN <<>>
    ELSE BucketSeeds(D[b].adj, 2) \o SeedsFrom(D, b + 1)

\* FindOverlaps.get_overlap_seeds
get_overlap_seeds(rs, kk, ww) == SeedsFrom(compress_kmer_array(get_kmer_array(rs, kk, ww)), 1)

\* seqs, k, w of the call get_overlap_seeds(seqs, k, w): the seed generator and the
\* builder are given the same reads (test.py lines 24-25).
GetOverlapSeeds ==
    /\ pc = "call_get_overlap_seeds"
    /\ yielded' = [i \in DOMAIN reads |-> minimizers(reads[i], k, w_)]
    /\ kmer_array' = get_kmer_array(reads, k, w_)
    /\ kmer_dict' = compress_kmer_array(get_kmer_array(reads, k, w_))
    /\ seeds' = get_overlap_seeds(reads, k, w_)
    /\ pc' = "call_seed"
    /\ UNCHANGED <<seqs, objVars, goldVars, k, reads, w_, calls, issued>>

\* The strings over A, C, G, T of length 1 .. n.
Strings(n) == UNION {[1 .. m -> 0 .. 3] : m \in 1 .. n}

\* ACGTACGTAC with k = 3, w = 2, and the reads ACGA, CGTA with k = 3, w = 1.
KmerScenarios ==
    { [reads |-> << <<0, 1, 2, 3, 0, 1, 2, 3, 0, 1>> >>, k |-> 3, w |-> 2],
      [reads |-> << <<0, 1, 2, 0>>, <<1, 2, 3, 0>> >>, k |-> 3, w |-> 1] }

InitKmer ==
    /\ \/ \E m \in 1 .. MaxKmerReads :
            /\ reads \in [1 .. m -> Strings(MaxStr)]
            /\ k \in 1 .. MaxK
            /\ w_ \in 1 .. MaxW
       \/ \E sc \in KmerScenarios : reads = sc.reads /\ k = sc.k /\ w_ = sc.w
    /\ seqs = [i \in 0 .. (Len(reads) - 1) |-> Len(reads[i + 1])]
    /\ pc = "call_get_overlap_seeds"
    /\ yielded = <<>> /\ kmer_array = <<>> /\ kmer_dict = <<>> /\ seeds = <<>>
    /\ g = <<>>
    /\ last = NoCall
    /\ res = NoResult
    /\ added = <<>>
    /\ ncalls = 0
    /\ calls = <<>>
    /\ issued = {}
    /\ GoldIdle

\* generate_seed_based(seqs, get_overlap_seeds(seqs, k, w), k): of the builder's
\* steps, those a list of sextuples lets it take.
NextKmer ==
    \/ GetOverlapSeeds
    \/ SeedStart
    \/ SeedReturn
    \/ SeedUnpackFails

SpecKmer == InitKmer /\ [][NextKmer]_vars

-----------------------------------------------------------------------------
(* Specification SpecPair: both builders on two reads cut from one genome *)

\* The offset, in the string of a read cut at [p, p + l) and reverse-complemented
\* when rev (create_reads, AssemblyProblem.py lines 185-186), of the k-mer that
\* starts at genome position x.
OffsetIn(p, l, rev, x, kk) == IF rev THEN p + l - x - kk ELSE x - p

\* The seeds (u, v, upos, vpos, rc) of the k-mers that lie in both reads; rc tells
\* that the k-mer is on opposite strands of u and v.
PairSeeds(sq, rc, kk) ==
    {<<u, v, OffsetIn(rc[u + 1][2], sq[u], rc[u + 1][3], x, kk),
             OffsetIn(rc[v + 1][2], sq[v], rc[v + 1][3], x, kk),
             rc[u + 1][3] # rc[v + 1][3]>> :
        u \in {0, 1}, v \in {0, 1}, x \in 0 .. (GenomeLen + MaxLen)}

\* The k-mer at x lies in both reads and the seed joins two reads.
PairSeedOk(sq, rc, kk, sd, x) ==
    /\ sd[1] # sd[2]
    /\ \A i \in {0, 1} : rc[i + 1][2] <= x /\ x + kk <= rc[i + 1][2] + sq[i]
    /\ sd = <<sd[1], sd[2],
              OffsetIn(rc[sd[1] + 1][2], sq[sd[1]], rc[sd[1] + 1][3], x, kk),
              OffsetIn(rc[sd[2] + 1][2], sq[sd[2]], rc[sd[2] + 1][3], x, kk),
              rc[sd[1] + 1][3] # rc[sd[2] + 1][3]>>

InitPair ==
    /\ \E sq \in [0 .. 1 -> 1 .. MaxLen], rc \in RecordLists(2, GenomeLen),
          kk \in 1 .. MaxK, gl \in {0, GenomeLen} :
          /\ seqs = sq
          /\ records = rc
          /\ genome_length = gl
          /\ k = kk
          /\ \E sd \in PairSeeds(sq, rc, kk), x \in 0 .. (GenomeLen + MaxLen) :
                PairSeedOk(sq, rc, kk, sd, x) /\ seeds = <<sd>>
    /\ pc = "call_gold"
    /\ g = <<>>
    /\ srt = <<>> /\ ufind = 0 /\ vfind = 0
    /\ last = NoCall
    /\ res = NoResult
    /\ added = <<>>
    /\ ncalls = 0
    /\ calls = <<>>
    /\ issued = {}
    /\ KmerIdle

\* generate_gold_standard has returned; its graph is kept in res and
\* generate_seed_based is called on the same reads.
SeedAfterGold ==
    /\ pc = "done"
    /\ res = NoResult
    /\ seeds # <<>>
    /\ res' = [NoResult EXCEPT !.op = "generate_gold_standard", !.g = g]
    /\ pc' = "call_seed"
    /\ calls' = <<>>
    /\ UNCHANGED <<seqs, g, last, added, ncalls, goldVars, seedVars, issued>>

NextPair ==
    \/ GoldStep
    \/ SeedAfterGold
    \/ SeedStart
    \/ SeedReturn
    \/ SeedUInsideV
    \/ SeedVInsideU
    \/ SeedDovetailUV
    \/ SeedDovetailVU

SpecPair == InitPair /\ [][NextPair]_vars

-----------------------------------------------------------------------------
(* Specification SpecCalls: add_overlap as the callers use it, on an object *)
(* directly and from the loops of the two builders                          *)

InitCalls == Init \/ InitSeed \/ InitGold

NextCalls ==
    \/ \E u, v \in -1 .. NumVertices, d \in Dirs, l \in 0 .. MaxOverhang :
          AddOverlap(u, v, d, l)
    \/ SeedStep
    \/ GoldStep

SpecCalls == InitCalls /\ [][NextCalls]_vars

-----------------------------------------------------------------------------
(* Specification SpecPipe: a builder, then get_pruned, then get_naive_tr on *)
(* the pruned graph, as test.py and test4.py chain them                     *)

\* get_naive_tr(fuzz) called on the graph get_pruned() returned.
ReducePruned(fuzz) ==
    /\ res.op = "get_pruned" /\ res.status = "ok"
    /\ LET r == get_naive_tr(res.g, fuzz)
       IN  res' = [op |-> "get_naive_tr_pruned", fuzz |-> fuzz, status |-> r.status,
                   input |-> res.g, g |-> r.g, consistent |-> ConsistentTriples(res.g),
                   marked |-> Marked(res.g, fuzz), prev_marked |-> {}]
    /\ UNCHANGED <<seqs, g, pc, last, added, ncalls, goldVars, seedVars, calls, issued>>

\* Three reads of MaxLen bases and one seed (u, v, upos, vpos, rc) with u < v for
\* each pair of them.
SeedsOfPair(u, v) ==
    {<<u, v, up, vp, rc>> : up \in 0 .. (MaxLen - 1), vp \in 0 .. (MaxLen - 1),
                            rc \in BOOLEAN}

InitSeedTri ==
    /\ seqs = [u \in 0 .. 2 |-> MaxLen]
    /\ k = 1
    /\ \E a \in SeedsOfPair(0, 1), b \in SeedsOfPair(1, 2), c \in SeedsOfPair(0, 2) :
          seeds = <<a, b, c>>
    /\ pc = "call_seed"
    /\ g = <<>>
    /\ last = NoCall
    /\ res = NoResult
    /\ added = <<>>
    /\ ncalls = 0
    /\ calls = <<>>
    /\ issued = {}
    /\ GoldIdle
    /\ KmerIdle

InitPipe == InitGold \/ InitSeed \/ InitSeedTri

NextPipe ==
    \/ GoldStep
    \/ SeedStep
    \/ GetPruned
    \/ \E fuzz \in Fuzzes : ReducePruned(fuzz)

SpecPipe == InitPipe /\ [][NextPipe]_vars

-----------------------------------------------------------------------------
(* Claims *)

Vertices == 0 .. (NumVertices - 1)

MinOf(S) == CHOOSE x \in S : \A y \in S : x <= y
MaxOf(S) == CHOOSE x \in S : \A y \in S : x >= y

StoredIs(u, v, d, l) == HasEdge(g, u, v) /\ EdgeOf(g, u, v).d = d /\ EdgeOf(g, u, v).l = l

AcceptedAdd == last.op = "add_overlap" /\ last.status = "ok"

ReverseDir(d) == CASE d = 1 -> 2 [] d = 2 -> 1 [] d = 0 -> 0 [] d = 3 -> 3 [] OTHER -> d

\* C2: in the graph a builder returns, every edge (u, v) between two different
\* reads with dir # -1 has a shadow
\* edge (v, u) with the reverse-traversal dir, the two were issued together for one
\* overlap, and no overhang is negative.
C2_ShadowEdges ==
    pc = "done" =>
      \A e \in EdgeSet(g) :
         /\ e[4] >= 0
         /\ (e[3] # -1 /\ e[1] # e[2]) =>
              /\ HasEdge(g, e[2], e[1])
              /\ EdgeOf(g, e[2], e[1]).d = ReverseDir(e[3])
              /\ \E p \in issued :
                    {p[1], p[2]} = {e, <<e[2], e[1], EdgeOf(g, e[2], e[1]).d,
                                          EdgeOf(g, e[2], e[1]).l>>}

\* The record the inner loop visited last, with its start as line 295 leaves it.
PrevRec == IF vfind - 1 < n_reads THEN RecAt(vfind - 1) ELSE RecAt(vfind - 1 - n_reads)
PrevPos == IF vfind - 1 < n_reads THEN PrevRec[2] ELSE PrevRec[2] + genome_length

\* The calls C3 expects for a visited pair.
C3_Expected(uu, up, ul, ur, vv, vp, vl, vr) ==
    IF vp + vl <= up + ul THEN << <<uu, vv, -1, 0>> >>
    ELSE IF vp = up THEN << <<vv, uu, -1, 0>> >>
    ELSE LET d == CASE ~ur /\ ~vr -> <<1, 2>>
                    [] ~ur /\ vr  -> <<0, 0>>
                    [] ur /\ ~vr  -> <<3, 3>>
                    [] ur /\ vr   -> <<2, 1>>
         IN  << <<uu, vv, d[1], vp + vl - up - ul>>, <<vv, uu, d[2], vp - up>> >>

IsS3 == seqs = (0 :> 10 @@ 1 :> 5) /\ records = << <<0, 0, FALSE>>, <<1, 2, FALSE>> >>

\* C3: for every pair the inner loop of generate_gold_standard went past (so
\* vpos < upos + ulen), the calls issued are: (u, v, -1, 0) alone when v ends no
\* later than u; else (v, u, -1, 0) alone when both start together; else both
\* dovetail calls with the dirs of the strand table and overhangs
\* vpos+vlen-upos-ulen and vpos-upos.  Read B (2, len 5) inside read A (0, len 10)
\* leaves exactly the edge (A, B, -1, 0).
C3_CallsPerPair ==
    /\ (pc = "inner" /\ vfind > ufind + 1) =>
          /\ PrevPos < upos + ulen
          /\ calls = C3_Expected(u_, upos, ulen, urev,
                                 PrevRec[1], PrevPos, seqs[PrevRec[1]], PrevRec[3])
    /\ (IsS3 /\ pc = "done") => EdgeSet(g) = {<<0, 1, -1, 0>>}

\* A reverse read followed by a forward read got the two dir = 3 calls.
C3_Witness ==
    /\ pc = "inner" /\ vfind > ufind + 1
    /\ urev /\ ~PrevRec[3]
    /\ calls = << <<u_, PrevRec[1], 3, PrevPos + seqs[PrevRec[1]] - upos - ulen>>,
                  <<PrevRec[1], u_, 3, PrevPos - upos>> >>

PosOf(a) == records[a + 1][2]

\* b comes after a in start-sorted order (the sort is stable).
Later(a, b) == PosOf(a) < PosOf(b) \/ (PosOf(a) = PosOf(b) /\ a < b)

\* b, met after a directly or by wrap-around, starts strictly before a ends.
StartsInside(a, b) ==
    \/ Later(a, b) /\ PosOf(b) < PosOf(a) + seqs[a]
    \/ PosOf(b) + genome_length < PosOf(a) + seqs[a]

IsS2 == /\ seqs = (0 :> 8 @@ 1 :> 8 @@ 2 :> 8)
        /\ records = << <<0, 0, FALSE>>, <<1, 4, FALSE>>, <<2, 8, FALSE>> >>

\* C4: in the graph generate_gold_standard returns, two distinct reads are joined
\* by an edge (in some direction) exactly when the later one, its start taken
\* +genome_length when met by wrap-around, starts strictly before the earlier one
\* ends; abutting reads are not joined, and reads of length 8 at 0, 4, 8 give the
\* four edges (0,1,1,4), (1,0,2,4), (1,2,1,4), (2,1,2,4).
C4_EdgeIffOverlap ==
    pc = "done" =>
      /\ \A a, b \in DOMAIN seqs :
            a # b => ((HasEdge(g, a, b) \/ HasEdge(g, b, a))
                         <=> (StartsInside(a, b) \/ StartsInside(b, a)))
      /\ IsS2 => EdgeSet(g) = {<<0, 1, 1, 4>>, <<1, 0, 2, 4>>, <<1, 2, 1, 4>>, <<2, 1, 2, 4>>}

\* Three reads returned with an abutting pair left apart and an overlapping pair joined.
C4_Witness ==
    /\ pc = "done" /\ n_reads = 3
    /\ \E a, b \in DOMAIN seqs :
          a # b /\ PosOf(b) = PosOf(a) + seqs[a] /\ ~HasEdge(g, a, b) /\ ~HasEdge(g, b, a)
    /\ \E a, b \in DOMAIN seqs : a # b /\ HasEdge(g, a, b) /\ EdgeOf(g, a, b).d # -1

IsS5 == seqs = (0 :> 10 @@ 1 :> 8) /\ records = << <<0, 15, FALSE>>, <<1, 3, FALSE>> >>

\* C5: for the reads at 15 (length 10) and 3 (length 8), genome_length = 20 returns
\* the graph with the dovetail (wrapping read -> other, dir 1, overhang 6) and its
\* shadow (dir 2, overhang 8); genome_length = 0 returns a graph with no edge
\* between the two.
C5_CircularAndLinear ==
    IsS5 =>
      /\ (genome_length = 20 /\ pc = "done") =>
            StoredIs(0, 1, 1, 6) /\ StoredIs(1, 0, 2, 8)
      /\ genome_length = 0 =>
            /\ pc # "AssertionError"
            /\ pc = "done" => ~HasEdge(g, 0, 1) /\ ~HasEdge(g, 1, 0)

\* The circular half of C5 alone.
C5_CircularHalf ==
    (IsS5 /\ genome_length = 20 /\ pc = "done") =>
        EdgeSet(g) = {<<0, 1, 1, 6>>, <<1, 0, 2, 8>>}

\* C6: assert upos <= vpos holds at every iteration of the inner loop, for every
\* genome_length >= 0: generate_gold_standard never ends in AssertionError.
C6_AssertNeverFails == pc # "AssertionError"

\* The bits of an edge's dir in the encoding (tail_bit << 1) | head_bit.
tail(G, u, v) == (EdgeOf(G, u, v).d \div 2) % 2
head(G, u, v) == EdgeOf(G, u, v).d % 2

C7_Stated(G, u, v, w) ==
    /\ head(G, u, v) = head(G, u, w)
    /\ tail(G, v, w) = tail(G, u, w)
    /\ tail(G, u, v) # head(G, v, w)

C7_Actual(G, u, v, w) ==
    /\ tail(G, u, v) = tail(G, u, w)
    /\ head(G, v, w) = head(G, u, w)
    /\ head(G, u, v) # tail(G, v, w)

\* C7 as stated: a triple (u, v, w), v in adj(u), w in adj(u) and adj(v), is treated
\* as consistent exactly when head(u,v) = head(u,w), tail(v,w) = tail(u,w) and
\* tail(u,v) # head(v,w), with tail = (dir >> 1) & 1 and head = dir & 1.
C7_ConsistentAsStated ==
    res.op = "get_naive_tr" =>
        res.consistent = {t \in Triples(res.input) : C7_Stated(res.input, t[1], t[2], t[3])}

\* C7 amended: a triple (u, v, w), v in adj(u), w in adj(u) and adj(v), is treated as
\* consistent exactly when tail(u,v) = tail(u,w), head(v,w) = head(u,w) and
\* head(u,v) # tail(v,w), with tail = (dir >> 1) & 1 and head = dir & 1: the code's
\* uv_head holds the tail bit and its uv_tail the head bit.
C7_ConsistentTailFirst ==
    res.op = "get_naive_tr" =>
        res.consistent = {t \in Triples(res.input) : C7_Actual(res.input, t[1], t[2], t[3])}

\* A triangle get_naive_tr treated as consistent although the stated test fails on it.
C7_Witness ==
    /\ res.op = "get_naive_tr"
    /\ \E t \in res.consistent :
          /\ Cardinality({t[1], t[2], t[3]}) = 3
          /\ ~C7_Stated(res.input, t[1], t[2], t[3])
          /\ C7_Actual(res.input, t[1], t[2], t[3])

EndOf(a) == PosOf(a) + seqs[a]

\* Reads a, b, c form a dovetail chain that does not close around the origin.
IsChain(a, b, c) ==
    /\ PosOf(a) < PosOf(b) /\ PosOf(b) < PosOf(c)
    /\ PosOf(b) < EndOf(a) /\ PosOf(c) < EndOf(b) /\ PosOf(c) < EndOf(a)
    /\ EndOf(a) < EndOf(b) /\ EndOf(b) < EndOf(c)
    /\ EndOf(c) <= PosOf(a) + genome_length

Between(G, a, c) == {e \in EdgeSet(G) : {e[1], e[2]} = {a, c}}

\* C8: for three reads u, v, w whose gold-standard overlaps form a dovetail chain,
\* whatever the strands, get_naive_tr(0) on the gold graph returns the graph without
\* the edges (u, w) and (w, u), and with the edges (u, v), (v, u), (v, w), (w, v)
\* as they were.
C8_ChainReduced ==
    (pc = "done" /\ n_reads = 3 /\ res.op = "get_naive_tr" /\ res.fuzz = 0) =>
        \A a, b, c \in DOMAIN seqs :
           IsChain(a, b, c) =>
              /\ res.status = "ok"
              /\ Cardinality(Between(res.input, a, c)) = 2
              /\ EdgeSet(res.g) = EdgeSet(res.input) \ Between(res.input, a, c)
              /\ \A p \in {<<a, b>>, <<b, a>>, <<b, c>>, <<c, b>>} :
                    /\ HasEdge(res.g, p[1], p[2])
                    /\ EdgeOf(res.g, p[1], p[2]) = EdgeOf(res.input, p[1], p[2])
              /\ EdgeOf(res.input, a, c).l = EdgeOf(res.input, a, b).l + EdgeOf(res.input, b, c).l

\* A chain whose middle read is on the other strand than its neighbours was reduced.
C8_Witness ==
    /\ pc = "done" /\ n_reads = 3 /\ res.op = "get_naive_tr" /\ res.fuzz = 0
    /\ \E a, b, c \in DOMAIN seqs :
          /\ IsChain(a, b, c)
          /\ records[a + 1][3] # records[b + 1][3] /\ records[c + 1][3] # records[b + 1][3]
          /\ num_edges(res.input) = 6 /\ num_edges(res.g) = 4

\* C9: for every graph built by add_overlap calls and every fuzz, get_naive_tr(fuzz)
\* returns a graph with at most as many edges as the graph it was called on.
C9_ReductionReturnsSmaller ==
    res.op = "get_naive_tr" =>
        res.status = "ok" /\ num_edges(res.g) <= num_edges(res.input)

C10_Targets(G) == {v \in DOMAIN G : \E e \in EdgeSet(G) : e[3] = -1 /\ e[2] = v}

\* C10: get_pruned returns a graph on the same vertices in which the contained
\* vertices are the targets of the input's dir = -1 edges; it holds exactly the
\* input edges, dir and overhang kept, whose two endpoints are not contained, no
\* edge touches a contained vertex, and the input graph is left as it was.
C10_PrunedGraph ==
    res.op = "get_pruned" =>
        /\ res.status = "ok"
        /\ DOMAIN res.g = DOMAIN res.input
        /\ EdgeSet(res.g) = {e \in EdgeSet(res.input) :
                                e[1] \notin C10_Targets(res.input) /\
                                e[2] \notin C10_Targets(res.input)}
        /\ \A e \in EdgeSet(res.g), c \in C10_Targets(res.input) : e[1] # c /\ e[2] # c
        /\ g = res.input

\* A pruning that dropped an edge out of a contained vertex and kept another edge.
C10_Witness ==
    /\ res.op = "get_pruned" /\ pc = "object"
    /\ \E e \in EdgeSet(res.input) :
          e[3] # -1 /\ e[1] \in C10_Targets(res.input) /\ e[2] \notin C10_Targets(res.input)
    /\ EdgeSet(res.g) # {}

\* C11: pruning is idempotent: get_pruned() of the graph get_pruned() returned has
\* the same vertices and the same edges, dir and overhang, as that graph.
C11_PruneIdempotent ==
    res.op = "get_pruned_again" =>
        /\ res.status = "ok"
        /\ DOMAIN res.g = DOMAIN res.input
        /\ EdgeSet(res.g) = EdgeSet(res.input)

\* The second pruning of a graph whose first pruning dropped a contained vertex and
\* kept a one-way edge.
C11_Witness ==
    /\ res.op = "get_pruned_again"
    /\ \E e \in EdgeSet(g) : e[3] = -1
    /\ \E e \in EdgeSet(res.g) : ~HasEdge(res.g, e[2], e[1])
    /\ EdgeSet(res.input) # EdgeSet(g)

\* C12: generate_seed_based(seqs, get_overlap_seeds(seqs, k, w), k) completes
\* without raising, for every read set: the builder takes the seeds in the shape
\* the seed generator emits them.
C12_PipelineCompletes == pc # "ValueError"

\* C13: every seed (u, v, upos, vpos, urev, vrev) get_overlap_seeds emits has u # v.
C13_SeedsJoinTwoReads ==
    pc = "call_seed" => \A i \in DOMAIN seeds : seeds[i][1] # seeds[i][2]

Hits == Range(kmer_array)

DictCodes == {kmer_dict[b].code : b \in DOMAIN kmer_dict}

\* C14: the table compress_kmer_array returns has a key for every code of the hit
\* list, the largest one and the code of a one-element list included, and maps each
\* code to exactly the (read_id, pos, rev) of the hits with that code.
C14_EveryCodeHasBucket ==
    pc = "call_seed" =>
        /\ DictCodes = {h[1] : h \in Hits}
        /\ \A b \in DOMAIN kmer_dict :
              /\ Range(kmer_dict[b].adj) =
                    {<<h[2], h[3], h[4]>> : h \in {x \in Hits : x[1] = kmer_dict[b].code}}
              /\ Len(kmer_dict[b].adj) = Cardinality(Range(kmer_dict[b].adj))
              /\ \A c \in DOMAIN kmer_dict : c # b => kmer_dict[c].code # kmer_dict[b].code

\* The seed made of hit a and hit b.
SeedOf(a, b) == <<a[2], b[2], a[3], b[3], a[4], b[4]>>

HitPairs == {p \in SUBSET Hits : Cardinality(p) = 2 /\ \A a, b \in p : a[1] = b[1]}

\* C15: get_overlap_seeds emits exactly one seed for every unordered pair of distinct
\* minimizer hits of get_kmer_array that share a code, and no other seed.
C15_OneSeedPerPair ==
    pc = "call_seed" =>
        /\ Len(seeds) = Cardinality(HitPairs)
        /\ \A p \in HitPairs :
              Cardinality({i \in DOMAIN seeds :
                             \E a, b \in p : a # b /\ seeds[i] = SeedOf(a, b)}) = 1
        /\ \A i \in DOMAIN seeds :
              \E p \in HitPairs : \E a, b \in p : a # b /\ seeds[i] = SeedOf(a, b)

\* Three seeds of one bucket were emitted while the last bucket, a single hit, was
\* left out of the table.
C15_Witness ==
    /\ pc = "call_seed"
    /\ Len(seeds) >= 3
    /\ \E h \in Hits : h[1] \notin DictCodes

\* The offset C16 selects in the window of ww k-mers starting at i.
C16_WindowPos(s, kk, ww, i) ==
    CHOOSE x \in i .. (i + ww - 1) :
       \A y \in i .. (i + ww - 1) :
          /\ ~LexLess(Slice(s, y, kk), Slice(s, x, kk))
          /\ (Slice(s, y, kk) = Slice(s, x, kk) => x <= y)

\* What C16 says is yielded from window i on, over all l-k-w+2 windows.
RECURSIVE C16_Expected(_, _, _, _, _)
C16_Expected(s, kk, ww, i, seen) ==
    IF i + ww - 1 + kk > Len(s) THEN <<>>
    ELSE LET x == C16_WindowPos(s, kk, ww, i)
         IN  IF Slice(s, x, kk) \in seen THEN C16_Expected(s, kk, ww, i + 1, seen)
             ELSE <<<<x, Slice(s, x, kk)>>>>
                  \o C16_Expected(s, kk, ww, i + 1, seen \cup {Slice(s, x, kk)})

\* C16: minimizers(s, k, w) yields, for every window of w consecutive k-mers of s
\* from left to right, the last window included, the smallest k-mer of the window at
\* its smallest offset unless that k-mer was yielded before; every yielded
\* (pos, kmer) has kmer = s[pos..pos+k).
C16_EveryWindow ==
    pc = "call_seed" =>
        \A r \in DOMAIN reads :
           /\ yielded[r] = C16_Expected(reads[r], k, w_, 0, {})
           /\ \A x \in DOMAIN yielded[r] :
                 yielded[r][x][2] = Slice(reads[r], yielded[r][x][1], k)

\* What minimizers does: C16 over the windows but the last.
C16_AllButLastWindow ==
    pc = "call_seed" =>
        \A r \in DOMAIN reads :
           /\ yielded[r] = C16_Expected(SubSeq(reads[r], 1, Len(reads[r]) - 1), k, w_, 0, {})
           /\ \A x \in DOMAIN yielded[r] :
                 yielded[r][x][2] = Slice(reads[r], yielded[r][x][1], k)

\* The big-endian code of a string with A = 0, C = 1, G = 2, T = 3.
RECURSIVE C17_Code(_)
C17_Code(s) ==
    IF s = <<>> THEN 0 ELSE 4 * C17_Code(SubSeq(s, 1, Len(s) - 1)) + s[Len(s)]

reverse_complement(s) == [i \in 1 .. Len(s) |-> 3 - s[Len(s) - i + 1]]

KmerOf(h) == Slice(reads[h[2] + 1], h[3], k)

\* C17: kmercode(s) and kmercode(reverse_complement(s)) return the same code, the
\* smaller of the big-endian codes of s and of its reverse complement; the flags are
\* opposite when s is not its own reverse complement and both false when it is;
\* ACG gives (6, False) and CGT gives (6, True).
C17_CanonicalCode ==
    pc = "call_seed" =>
        /\ \A a, b \in Hits :
              KmerOf(b) = reverse_complement(KmerOf(a)) =>
                 /\ a[1] = b[1]
                 /\ a[1] = IF C17_Code(KmerOf(a)) <= C17_Code(KmerOf(b))
                           THEN C17_Code(KmerOf(a)) ELSE C17_Code(KmerOf(b))
                 /\ KmerOf(a) # KmerOf(b) => a[4] # b[4]
                 /\ KmerOf(a) = KmerOf(b) => ~a[4] /\ ~b[4]
        /\ (reads = << <<0, 1, 2, 0>>, <<1, 2, 3, 0>> >> /\ k = 3) =>
              kmer_array = << <<6, 0, 0, FALSE>>, <<6, 1, 0, TRUE>> >>

\* A 2-mer and its reverse complement, another 2-mer, were both coded.
C17_Witness ==
    /\ pc = "call_seed" /\ k = 2
    /\ \E a, b \in Hits :
          /\ KmerOf(b) = reverse_complement(KmerOf(a)) /\ KmerOf(a) # KmerOf(b)
          /\ a[4] /\ ~b[4]

IsReduction == res.op \in {"get_naive_tr", "get_naive_tr_again"}

\* Every consistent triple (u, v, w) has an edge (w, v) whose overhang line 112 reads.
C18_OverhangsThere == \A t \in res.consistent : HasEdge(res.input, t[3], t[2])

\* C18: a consistent triple (u, v, w) marks (u, w) and (w, u) for removal iff
\* overhang(w, v) >= fuzz, whatever the overhangs of (u, v), (v, w) and (u, w); with
\* fuzz = 0 every consistent triple is reduced, and a call with a larger fuzz marks
\* and removes no edge that the call with the smaller fuzz left.
C18_FuzzOnlyOnWV ==
    (IsReduction /\ C18_OverhangsThere) =>
        /\ res.marked =
              UNION {{<<t[1], t[3]>>, <<t[3], t[1]>>} :
                       t \in {c \in res.consistent :
                                EdgeOf(res.input, c[3], c[2]).l >= res.fuzz}}
        /\ res.fuzz = 0 =>
              \A t \in res.consistent :
                 <<t[1], t[3]>> \in res.marked /\ <<t[3], t[1]>> \in res.marked
        /\ res.status = "ok" =>
              EdgeSet(res.g) = {e \in EdgeSet(res.input) : <<e[1], e[2]>> \notin res.marked}
        /\ res.op = "get_naive_tr_again" => res.marked \subseteq res.prev_marked

\* The call with fuzz = 1 after the call with fuzz = 0 returned a graph and marked
\* some but not all of what the first call marked, on three different reads.
C18_Witness ==
    /\ res.op = "get_naive_tr_again" /\ res.status = "ok" /\ C18_OverhangsThere
    /\ res.marked # {} /\ res.marked # res.prev_marked
    /\ \E t \in res.consistent : Cardinality({t[1], t[2], t[3]}) = 3

\* Both builders have run on two reads that overlap in one region only.
PairDone ==
    /\ pc = "done" /\ res.op = "generate_gold_standard"
    /\ \A a, b \in {0, 1} : EndOf(a) <= PosOf(b) + genome_length

SameStrand == records[1][3] = records[2][3]

SameInterval == PosOf(0) = PosOf(1) /\ seqs[0] = seqs[1]

\* C19: for a seed on opposite strands of u and v (rc true), the reads cut from one
\* genome on opposite strands and overlapping in one region, generate_seed_based
\* stores for (u, v) and (v, u) the dir and overhang generate_gold_standard stores.
C19_OppositeStrandsAgree ==
    (PairDone /\ ~SameStrand /\ ~SameInterval) => EdgeSet(g) = EdgeSet(res.g)

\* C20: for a seed on the same strand of u and v (rc false), the reads cut from one
\* genome on the same strand, overlapping in one region and not covering the same
\* interval, generate_seed_based issues the add_overlap calls generate_gold_standard
\* issues for the pair, up to order: one containment call, or the two dovetail calls.
C20_SameStrandAgree ==
    (PairDone /\ SameStrand /\ ~SameInterval) =>
        /\ EdgeSet(g) = EdgeSet(res.g)
        /\ \A a, b \in issued : Range(a) = Range(b)
        /\ \A a \in issued : Range(a) = EdgeSet(g)
        /\ issued = {} => \E e \in EdgeSet(g) : e[3] = -1 /\ EdgeSet(g) = {e}

\* Two reverse reads in a dovetail, the seed given with the later read as u.
C20_Witness ==
    /\ PairDone /\ SameStrand /\ records[1][3]
    /\ Cardinality(issued) = 2
    /\ PosOf(0) < PosOf(1)
    /\ \E e \in EdgeSet(g) : e[1] = 0 /\ e[3] = 2

\* The ordered pairs stored as containment edges (-1, 0).
ContEdges(G) == {<<e[1], e[2]>> : e \in {x \in EdgeSet(G) : x[3] = -1 /\ x[4] = 0}}

\* The ordered pairs the calls just made classified as containments: the call
\* add_overlap(u, v, -1, 0) of the object's caller, or of one builder iteration.
ContCalled ==
    {<<c[1], c[2]>> : c \in {x \in Range(calls) : x[3] = -1 /\ x[4] = 0}}
    \cup (IF AcceptedAdd /\ last.d = -1 /\ last.l = 0 THEN {<<last.u, last.v>>} ELSE {})

\* C21 as stated: once add_overlap(u, v, -1, 0) has been executed the stored edge of
\* (u, v) is (-1, 0).
C21_StickyAsStated == ContCalled \subseteq ContEdges(g)

\* A call add_overlap(u, v, -1, 0) stores (-1, 0) unless (u, v) has a stored edge
\* of overhang 0, which it leaves as it was; a builder's containment call always
\* stores (-1, 0).
C21_ContainmentStored ==
    /\ (AcceptedAdd /\ last.d = -1 /\ last.l = 0) =>
          IF last.had /\ last.old_l <= 0
          THEN StoredIs(last.u, last.v, last.old_d, last.old_l)
          ELSE StoredIs(last.u, last.v, -1, 0)
    /\ {<<c[1], c[2]>> : c \in {x \in Range(calls) : x[3] = -1}} \subseteq ContEdges(g)

\* No add_overlap call with overhang >= 0 changes a stored (-1, 0).
C21_StickyStep == ContEdges(g) \subseteq ContEdges(g')

\* A pair becomes a containment edge only by a containment call for that pair.
C21_OnlyByContainment == (ContEdges(g') \ ContEdges(g)) \subseteq ContCalled'

\* C21: containment is sticky under add_overlap. A call add_overlap(u, v, -1, 0)
\* stores (-1, 0) for (u, v) when the pair has no stored edge or one of overhang
\* > 0, and leaves a stored edge of overhang 0 as it was; a stored (-1, 0) survives
\* every later add_overlap call with overhang >= 0; in a builder every containment
\* call stores (-1, 0) and containment edges arise from containment calls only, so
\* (u, v) is a containment edge of the builder's graph iff some seed or record pair
\* classified v as contained in u.
C21_ContainmentSticky ==
    /\ [](C21_ContainmentStored)
    /\ [][C21_StickyStep /\ C21_OnlyByContainment]_vars

\* A builder's dovetail calls for a pair leave the pair's earlier containment edge.
C21_Witness ==
    /\ pc \in {"seeds", "inner"}
    /\ \E c \in Range(calls) : c[3] # -1 /\ c[4] > 0 /\ <<c[1], c[2]>> \in ContEdges(g)

\* G holds (v, u) whenever it holds (u, v).
Symmetric(G) == \A e \in EdgeSet(G) : HasEdge(G, e[2], e[1])

Pruned == res.op = "get_pruned"

Reduced == res.op = "get_naive_tr_pruned"

\* C22: for every graph G a builder returns, get_pruned(G) has no dir = -1 edge and
\* holds (v, u) whenever it holds (u, v); get_naive_tr(fuzz) on get_pruned(G) always
\* completes: no edge (w, v) or (w, u) it looks up is missing, (u, w) and (w, u) are
\* marked together so the assertion of line 121 holds, and its result again holds
\* (v, u) whenever it holds (u, v).
C22_PrunedThenReduced ==
    /\ Pruned =>
          /\ res.status = "ok"
          /\ \A e \in EdgeSet(res.g) : e[3] # -1
          /\ Symmetric(res.g)
    /\ Reduced =>
          /\ res.status = "ok"
          /\ \A t \in res.consistent : HasEdge(res.input, t[3], t[2])
          /\ \A e \in EdgeSet(res.input) : HasEdge(res.input, e[2], e[1])
          /\ \A m \in res.marked : <<m[2], m[1]>> \in res.marked
          /\ Symmetric(res.g)

\* Three dovetailing reads of a builder's graph: the reduction marks a pair and
\* returns fewer edges than the pruned graph has.
C22_Witness ==
    /\ Reduced
    /\ res.marked # {}
    /\ EdgeSet(res.g) # {}
    /\ EdgeSet(res.g) # EdgeSet(res.input)

====
